---------------------------- MODULE Spec2Model ----------------------------
(***************************************************************************)
(* CA-DMV-Plate-Finder: the probing engine (src/src/plateFinder.ts) and    *)
(* its drivers: the CLI pool (src/src/index.ts), the single-session        *)
(* checkPlates subscription (observable variant), the quickCheck mutation  *)
(* and the parallel checkPlates subscription (pMapIterable variant), all   *)
(* three in src/src/server/api/routers/plateChecker.ts.                    *)
(*                                                                         *)
(* One run of the program is one of the drivers; the variable entry says   *)
(* which.  A plate is a sequence of one-character strings.  JavaScript     *)
(* runs a continuation to its next await on I/O without interleaving, so   *)
(* an action is one such run-to-completion step.                           *)
(***************************************************************************)
EXTENDS Integers, Sequences, FiniteSets, TLC

VARIABLES
    entry,              \* which driver runs: "cli", "observable", "parallel" or
                        \* "quickCheck"
    plates,             \* input.plates, or the lines of plates.txt for the CLI
    sessionId,          \* PlateFinder.sessionId, per finder
    cookies,            \* PlateFinder.cookies, per finder
    availablePlates,    \* PlateFinder.availablePlates, per finder
    platesChecked,      \* PlateFinder.platesChecked, per finder
    initOutcome,        \* per finder: how its initialize() call ended
    handshake,          \* per finder: the answer its initialize() call got
    inflight,           \* probe requests sent and not yet answered
    probeLog,           \* every probe request sent, in order
    lastProbe,          \* the last getPlateStatus call that returned
    events,             \* what the stream has emitted (emit.next, yield), in order
    obsPc,              \* runPlateChecker's position
    obsIdx,             \* index of the plate of the for loop (1-based)
    isSubscribed,       \* the observable's isSubscribed flag
    streamState,        \* the observable: "open", "completed" or "unsubscribed"
    parPc,              \* the subscription generator's position
    plateFinders,       \* the plateFinders array (finder ids)
    promises,           \* pMapIterable's queue of mapper promises
    nextIndex,          \* pMapIterable's index (0-based), next plate to map
    eventId,
    totalChecked,
    parCancelled,       \* the consumer called return() on the generator
    lastEventId,        \* the id of the last event a reconnecting consumer had
                        \* received, NoId on a first connection
    emitted,            \* the input indices (0-based) of the results yielded
    qcPc,               \* the quickCheck mutation's position
    qcResult,           \* what the quickCheck mutation returned
    mainState,          \* main's position
    workerPc,           \* per worker: its position in main's callback / run()
    genPos,             \* values the shared generator has yielded
    genLine,            \* lines of plates.txt the generator has read
    genDone,            \* the shared generator has returned
    genReturn,          \* the return() asked of the shared generator, if any
    genQueue,           \* workers whose next() is pending, in call order
    outputFile          \* available-plates.txt, Unwritten until written

(***************************************************************************)
(* Bounds of the model.  NUM_PARALLEL (index.ts:9, default 50),            *)
(* PARALLEL_WORKERS (plateChecker.ts:143, 10) and SLICE_LIMIT              *)
(* (plateChecker.ts:165, 1000) are the program's sizes scaled down.        *)
(***************************************************************************)
NUM_PARALLEL == 2
PARALLEL_WORKERS == 2
SLICE_LIMIT == 3

MaxPlates == SLICE_LIMIT + 1

MINIMUM_LENGTH == 2
MAXIMUM_LENGTH == 7

Min(a, b) == IF a < b THEN a ELSE b
Max(a, b) == IF a > b THEN a ELSE b

Finders == 1 .. Max(NUM_PARALLEL, PARALLEL_WORKERS)

SeqsUpTo(S, n) == UNION { [1 .. k -> S] : k \in 0 .. n }

(***************************************************************************)
(* Strings.                                                                *)
(***************************************************************************)
PlatePool == { <<"a", "b">>, <<"A", "B">> }

\* Plates a request can carry besides those of the pool: one of 8 characters,
\* one of 7 and the empty string.
LongPlate == <<"a", "b", "a", "b", "a", "b", "a", "b">>
FullPlate == <<"a", "b", "a", "b", "a", "b", "a">>
EmptyPlate == <<>>

\* The input.plates of a checkPlates request.
PlateInputs ==
    SeqsUpTo(PlatePool, MaxPlates)
        \cup { <<LongPlate>>, << <<"a", "b">>, EmptyPlate >> }

\* The input.plates of a request to the parallel checkPlates: one list of
\* each length, of two plates in turn, besides the two that test the schema.
ParallelInputs ==
    { [i \in 1 .. k |-> IF i % 2 = 1 THEN <<"a", "b">> ELSE <<"b", "a">>] :
      k \in 0 .. MaxPlates }
        \cup { <<LongPlate>>, << <<"a", "b">>, EmptyPlate >> }

\* The input.plate of a quickCheck request, as a list of one plate.
QuickCheckInputs == { <<p>> : p \in PlatePool \cup {LongPlate, FullPlate, EmptyPlate} }

\* z.string().min(1).max(7): the plates of the observable checkPlates and of
\* quickCheck.
plateSchema(p) == Len(p) >= 1 /\ Len(p) <= 7

\* z.string().min(1).max(1000): the plates of the parallel checkPlates.
plateSchemaParallel(p) == Len(p) >= 1 /\ Len(p) <= 1000

\* The input parses: z.array(...) of the plate schema of the procedure.
inputParses(e, input) ==
    \A i \in 1 .. Len(input) :
        IF e = "parallel" THEN plateSchemaParallel(input[i]) ELSE plateSchema(input[i])

\* The plates.txt files of the model: empty; no acceptable line (too short,
\* too long); the same plate in two letter cases; a padded line, a line that
\* is too short and a repeated plate.
PlateFiles ==
    { <<>>,
      << <<" ", "a", " ">>, <<"a", "b", "a", "b", "a", "b", "a", "b">> >>,
      << <<"a", "b">>, <<"A", "B">> >>,
      << <<" ", "a", "b", " ">>, <<"a">>, <<"a", "b">> >> }

\* The plates.txt of the pool whose workers are consumed as result streams.
StreamFiles == { << <<"a", "b">>, <<"A", "B">> >> }

toUpperCaseChar(c) ==
    CASE c = "a" -> "A"
      [] c = "b" -> "B"
      [] OTHER -> c

toUpperCase(s) == [i \in 1 .. Len(s) |-> toUpperCaseChar(s[i])]

RECURSIVE trimStart(_)
trimStart(s) ==
    IF s # <<>> /\ Head(s) = " " THEN trimStart(Tail(s)) ELSE s

RECURSIVE trimEnd(_)
trimEnd(s) ==
    IF s # <<>> /\ s[Len(s)] = " " THEN trimEnd(SubSeq(s, 1, Len(s) - 1)) ELSE s

trim(s) == trimEnd(trimStart(s))

(***************************************************************************)
(* The remote endpoint's answers.  statusCode 0 stands for a transport     *)
(* failure (request() rejects).  json is the shape of the body: "invalid"  *)
(* (JSON.parse throws), "null", "scalar" (a JSON value that is not an      *)
(* object, such as 5), or "object"; code is the object's code field,       *)
(* "<absent>" when it has none.                                            *)
(***************************************************************************)
Absent == "<absent>"

Resp(sc, j, c) == [statusCode |-> sc, json |-> j, code |-> c]

ProbeResponses ==
    { Resp(0, "invalid", Absent),
      Resp(500, "invalid", Absent),
      Resp(200, "invalid", Absent),
      Resp(200, "null", Absent),
      Resp(200, "scalar", Absent),
      Resp(200, "object", Absent),
      Resp(200, "object", ""),
      Resp(200, "object", "AVAILABLE"),
      Resp(200, "object", "TAKEN"),
      Resp(200, "object", "ERROR") }

\* The session token the endpoint hands out on the handshake of finder f.
tokenOf(f) ==
    CASE f = 1 -> "sid1"
      [] f = 2 -> "sid2"
      [] f = 3 -> "sid3"
      [] OTHER -> "sid4"

Handshake(sc, js, ok) == [statusCode |-> sc, jsession |-> js, bodyOk |-> ok]

InitResponses(f) ==
    { Handshake(0, "", FALSE), Handshake(500, "", TRUE), Handshake(200, "", TRUE),
      Handshake(500, tokenOf(f), TRUE),
      Handshake(200, tokenOf(f), TRUE), Handshake(200, tokenOf(f), FALSE) }

NoHandshake == Handshake(0, "<none>", FALSE)

(***************************************************************************)
(* PlateFinder.initialize: the session fields after the handshake answer   *)
(* r, and whether the call threw.                                          *)
(***************************************************************************)
\* An initialize() that returns normally whatever the handshake answer.
initializeLenient(sessionIdBefore, r) ==
    LET matched == r.statusCode = 200 /\ r.jsession # ""
    IN [ sessionId |-> IF matched THEN r.jsession ELSE sessionIdBefore,
         cookieSet |-> matched,
         threw |-> FALSE,
         message |-> Absent ]

\* An initialize() that reads the session cookie before it looks at the status.
initializeCookieFirst(sessionIdBefore, r) ==
    LET matched == r.jsession # ""
        sid == IF matched THEN r.jsession ELSE sessionIdBefore
        threwInTry == r.statusCode # 200 \/ ~r.bodyOk
    IN [ sessionId |-> sid,
         cookieSet |-> matched,
         threw |-> threwInTry \/ sid = "",
         message |-> IF threwInTry THEN "Failed to initialize session"
                     ELSE IF sid = "" THEN "Failed to obtain session ID!"
                     ELSE Absent ]

initialize(sessionIdBefore, r) ==
    LET matched == r.statusCode = 200 /\ r.jsession # ""
        sid == IF matched THEN r.jsession ELSE sessionIdBefore
        threwInTry == r.statusCode # 200 \/ ~r.bodyOk
    IN [ sessionId |-> sid,
         cookieSet |-> matched,
         threw |-> threwInTry \/ sid = "",
         message |-> IF threwInTry THEN "Failed to initialize session"
                     ELSE IF sid = "" THEN "Failed to obtain session ID!"
                     ELSE Absent ]

cookieOf(sid) == IF sid = "" THEN <<>> ELSE <<"JSESSIONID=", sid>>

(***************************************************************************)
(* PlateFinder.getPlateStatus on the answer r.  tryBlock is the body of    *)
(* its try: what it returns, or that it threw; getPlateStatus adds the     *)
(* catch.  Thrown is the result of a call that throws to its caller.       *)
(***************************************************************************)
Thrown == "<thrown>"

plateStatusOf(r) ==
    IF r.code = Absent \/ r.code = "" THEN "UNKNOWN" ELSE r.code

tryBlock(r) ==
    IF r.statusCode = 0 THEN [threw |-> TRUE, value |-> Thrown]
    ELSE IF r.statusCode # 200 THEN [threw |-> TRUE, value |-> Thrown]
    ELSE IF r.json = "invalid" THEN [threw |-> TRUE, value |-> Thrown]
    ELSE IF r.json = "null" THEN [threw |-> TRUE, value |-> Thrown]
    ELSE IF r.json = "scalar" THEN [threw |-> FALSE, value |-> "UNKNOWN"]
    ELSE [threw |-> FALSE, value |-> plateStatusOf(r)]

\* getPlateStatus without its catch: a failure is thrown to the caller.
getPlateStatusNoCatch(r) == tryBlock(r).value

\* A getPlateStatus whose answer depends on what the PlateFinders have found
\* so far.
getPlateStatusByHistory(r) ==
    IF tryBlock(r).threw THEN "ERROR"
    ELSE IF \E f \in DOMAIN availablePlates : availablePlates[f] # <<>> THEN "UNKNOWN"
    ELSE tryBlock(r).value

getPlateStatus(r) ==
    IF tryBlock(r).threw THEN "ERROR" ELSE tryBlock(r).value

\* A push of the candidate as it was given, not uppercased.
pushAvailableRaw(avail, plate, r) ==
    IF getPlateStatus(r) = "AVAILABLE" THEN Append(avail, plate) ELSE avail

\* availablePlates after getPlateStatus(plate) on the answer r.
pushAvailable(avail, plate, r) ==
    IF getPlateStatus(r) = "AVAILABLE" THEN Append(avail, toUpperCase(plate)) ELSE avail

(***************************************************************************)
(* The status the checkPlates streams report for a returned status.        *)
(***************************************************************************)
reportedStatus(status) ==
    IF status = "AVAILABLE" THEN "AVAILABLE"
    ELSE IF status = "ERROR" THEN "ERROR"
    ELSE "UNAVAILABLE"


SYSTEM == <<"S", "Y", "S", "T", "E", "M">>
NoId == -1
Undefined == -1

Event(id, plate, status, error, total) ==
    [id |-> id, plate |-> plate, status |-> status, error |-> error,
     totalChecked |-> total]

(***************************************************************************)
(* PlateFinder.updatePayload: the form fields of a probe.  The loop over   *)
(* i = 0 .. 6 is written out, one field `plateChar${i}` per turn.          *)
(***************************************************************************)
\* plateNumber[i] || "" of a string indexed from 0.
charAt(plateNumber, i) == IF i < Len(plateNumber) THEN plateNumber[i + 1] ELSE ""

\* An updatePayload that counts the plate's characters from 1.
updatePayloadFromOne(plateNumber) ==
    [ plateType |-> "Z",
      plateName |-> "California 1960s Legacy",
      plateLength |-> "7",
      vehicleType |-> "AUTO",
      plateChar0 |-> charAt(plateNumber, 1),
      plateChar1 |-> charAt(plateNumber, 2),
      plateChar2 |-> charAt(plateNumber, 3),
      plateChar3 |-> charAt(plateNumber, 4),
      plateChar4 |-> charAt(plateNumber, 5),
      plateChar5 |-> charAt(plateNumber, 6),
      plateChar6 |-> charAt(plateNumber, 7) ]

updatePayload(plateNumber) ==
    [ plateType |-> "Z",
      plateName |-> "California 1960s Legacy",
      plateLength |-> "7",
      vehicleType |-> "AUTO",
      plateChar0 |-> charAt(plateNumber, 0),
      plateChar1 |-> charAt(plateNumber, 1),
      plateChar2 |-> charAt(plateNumber, 2),
      plateChar3 |-> charAt(plateNumber, 3),
      plateChar4 |-> charAt(plateNumber, 4),
      plateChar5 |-> charAt(plateNumber, 5),
      plateChar6 |-> charAt(plateNumber, 6) ]

Probe(f, plate, src, cookie) ==
    [finder |-> f, plate |-> plate, src |-> src, cookie |-> cookie]

\* The form fields in the body of the request of the probe p.
payloadOf(p) == updatePayload(p.plate)

NoProbe == [finder |-> 0, plate |-> <<>>, src |-> 0,
            resp |-> Resp(0, "invalid", Absent), status |-> "<none>"]

finderVars == <<sessionId, cookies, availablePlates, platesChecked, initOutcome,
                handshake>>
probeVars == <<inflight, probeLog, lastProbe>>
obsVars == <<obsPc, obsIdx, isSubscribed, streamState>>
parVars == <<parPc, plateFinders, promises, nextIndex, eventId, totalChecked,
             parCancelled, lastEventId, emitted>>
qcVars == <<qcPc, qcResult>>
cliVars == <<mainState, workerPc, genPos, genLine, genDone, genReturn, genQueue,
             outputFile>>
vars == <<entry, plates, finderVars, probeVars, events, obsVars, parVars, qcVars,
          cliVars>>

Unwritten == << <<"unwritten">> >>

NoResult == [plate |-> <<>>, status |-> "<none>", error |-> Absent]

\* No return() has been asked of the shared generator.  A request names the
\* worker whose stream asked, the number of next() calls that were pending
\* before it, and whether the generator has carried it out.
NoReturn == [by |-> 0, after |-> 0, closed |-> FALSE]

Init ==
    /\ entry \in {"cli", "observable", "parallel", "quickCheck", "results"}
    /\ plates \in CASE entry = "cli" -> PlateFiles
                    [] entry = "results" -> StreamFiles
                    [] entry = "quickCheck" -> QuickCheckInputs
                    [] entry = "parallel" -> ParallelInputs
                    [] OTHER -> PlateInputs
    /\ sessionId = [f \in Finders |-> ""]
    /\ cookies = [f \in Finders |-> <<>>]
    /\ availablePlates = [f \in Finders |-> <<>>]
    /\ platesChecked = [f \in Finders |-> 0]
    /\ initOutcome = [f \in Finders |-> "none"]
    /\ handshake = [f \in Finders |-> NoHandshake]
    /\ inflight = {}
    /\ probeLog = <<>>
    /\ lastProbe = NoProbe
    /\ events = <<>>
    /\ obsPc = "idle"
    /\ obsIdx = 1
    /\ isSubscribed = TRUE
    /\ streamState = "open"
    /\ parPc = "idle"
    /\ plateFinders = <<>>
    /\ promises = <<>>
    /\ nextIndex = 0
    /\ eventId = 0
    /\ totalChecked = 0
    /\ parCancelled = FALSE
    /\ lastEventId = NoId
    /\ emitted = <<>>
    /\ qcPc = "idle"
    /\ qcResult = NoResult
    /\ mainState = "idle"
    /\ workerPc = [w \in 1 .. NUM_PARALLEL |-> "idle"]
    /\ genPos = 0
    /\ genLine = 0
    /\ genDone = FALSE
    /\ genReturn = NoReturn
    /\ genQueue = <<>>
    /\ outputFile = Unwritten

(***************************************************************************)
(* A finder's initialize() returning on the handshake answer r.            *)
(***************************************************************************)
setSession(f, r) ==
    LET res == initialize(sessionId[f], r)
    IN /\ sessionId' = [sessionId EXCEPT ![f] = res.sessionId]
       /\ cookies' = [cookies EXCEPT
                        ![f] = IF res.cookieSet THEN cookieOf(res.sessionId) ELSE @]
       /\ initOutcome' = [initOutcome EXCEPT
                            ![f] = IF res.threw THEN "threw" ELSE "returned"]
       /\ handshake' = [handshake EXCEPT ![f] = r]

(***************************************************************************)
(* A finder's getPlateStatus(plate) returning on the answer r.             *)
(***************************************************************************)
\* A getPlateStatus that forgets the session when its request fails.
sessionDroppedOnFailure(sid, cookie, r) ==
    IF tryBlock(r).threw THEN [sessionId |-> "", cookies |-> <<>>]
    ELSE [sessionId |-> sid, cookies |-> cookie]

\* sessionId and cookies after getPlateStatus has returned on the answer r:
\* it reads cookies and assigns neither.
sessionAfterProbe(sid, cookie, r) == [sessionId |-> sid, cookies |-> cookie]

recordStatus(f, plate, src, r) ==
    /\ sessionId' = [sessionId EXCEPT
                       ![f] = sessionAfterProbe(@, cookies[f], r).sessionId]
    /\ cookies' = [cookies EXCEPT
                     ![f] = sessionAfterProbe(sessionId[f], @, r).cookies]
    /\ availablePlates' = [availablePlates EXCEPT ![f] = pushAvailable(@, plate, r)]
    /\ lastProbe' = [finder |-> f, plate |-> plate, src |-> src, resp |-> r,
                     status |-> getPlateStatus(r)]

(***************************************************************************)
(* Single-session checkPlates (observable variant).                        *)
(***************************************************************************)
obsTotalChecked(f) == platesChecked[f]

\* An outer catch that swallows the error.
systemErrorSwallowed(id, message) == <<>>

\* What the outer catch of a checkPlates stream emits.
systemError(id, message) == <<Event(id, SYSTEM, "ERROR", message, Undefined)>>

\* An emit.next that drops the event once the consumer has unsubscribed.
emitNextWhileSubscribed(ev, e) == IF isSubscribed THEN Append(ev, e) ELSE ev

\* emit.next(e) on a stream that has emitted ev.
emitNext(ev, e) == Append(ev, e)

initializingNotice ==
    Event(NoId, SYSTEM, "CHECKING", "Initializing DMV session...", Undefined)

readyNotice ==
    Event(NoId, SYSTEM, "CHECKING", "Session initialized. Starting plate checks...",
          Undefined)

\* A runPlateChecker that goes from initialize() to the plates without a word.
sessionReadySilent(ev) == ev

\* The stream after initialize() has returned: the notice that it has.
sessionReady(ev) == emitNext(ev, readyNotice)

\* A CHECKING event that carries the plate as it was given.
checkingEventRaw(plate) == Event(NoId, plate, "CHECKING", Absent, Undefined)

\* The CHECKING event of a plate.
checkingEvent(plate) ==
    Event(NoId, toUpperCase(plate), "CHECKING", Absent, Undefined)

\* A for loop that does not look at isSubscribed.
loopEndsAtLastPlate(i) == i > Len(plates)

\* The for loop over input.plates is over: no plate is left, or the break.
loopEnds(i) == i > Len(plates) \/ ~isSubscribed

\* The head of the for loop over input.plates: ev is what has been emitted,
\* i the index of the next plate, infl the requests still in flight.
obsLoopHead(ev, i, infl) ==
    IF loopEnds(i)
    THEN /\ obsPc' = "returned"
         /\ events' = ev
         /\ inflight' = infl
         /\ UNCHANGED probeLog
    ELSE /\ obsPc' = "probing"
         /\ events' = emitNext(ev, checkingEvent(plates[i]))
         /\ inflight' = infl \cup {Probe(1, plates[i], i, cookies'[1])}
         /\ probeLog' = Append(probeLog, Probe(1, plates[i], i, cookies'[1]))

\* The subscription request arrives: an input that does not parse is
\* rejected and the resolver does not run.
ObsSubscribe ==
    /\ entry = "observable"
    /\ obsPc = "idle"
    /\ IF inputParses(entry, plates)
       THEN /\ obsPc' = "initializing"
            /\ events' = emitNext(events, initializingNotice)
       ELSE /\ obsPc' = "rejected"
            /\ UNCHANGED events
    /\ UNCHANGED <<entry, plates, qcVars, finderVars, probeVars, obsIdx, isSubscribed,
                   streamState, parVars, cliVars>>

ObsInitReturn(r) ==
    /\ entry = "observable"
    /\ obsPc = "initializing"
    /\ setSession(1, r)
    /\ IF initialize(sessionId[1], r).threw
       THEN /\ obsPc' = "returned"
            /\ events' = events \o systemError(NoId, initialize(sessionId[1], r).message)
            /\ UNCHANGED <<inflight, probeLog>>
       ELSE obsLoopHead(sessionReady(events), 1, inflight)
    /\ UNCHANGED <<entry, plates, qcVars,
                   availablePlates, platesChecked, lastProbe, obsIdx,
                   isSubscribed, streamState, parVars, cliVars>>

ObsProbeReturn(r) ==
    /\ entry = "observable"
    /\ obsPc = "probing"
    /\ UNCHANGED <<platesChecked, initOutcome, handshake>>
    /\ LET plate == plates[obsIdx]
           status == getPlateStatus(r)
       IN /\ recordStatus(1, plate, obsIdx, r)
          /\ obsIdx' = obsIdx + 1
          /\ obsLoopHead(emitNext(events,
                           Event(NoId, toUpperCase(plate), reportedStatus(status),
                                 IF status = "ERROR" THEN "Failed to check plate"
                                 ELSE Absent,
                                 obsTotalChecked(1))),
                         obsIdx + 1,
                         inflight \ {Probe(1, plate, obsIdx, cookies[1])})
    /\ UNCHANGED <<entry, plates, qcVars, isSubscribed, streamState, parVars, cliVars>>

\* The teardown function the observable returns.
ObsUnsubscribe ==
    /\ entry = "observable"
    /\ obsPc \notin {"idle", "rejected"}
    /\ streamState = "open"
    /\ isSubscribed' = FALSE
    /\ streamState' = "unsubscribed"
    /\ UNCHANGED <<entry, plates, qcVars, finderVars, probeVars, events, obsPc, obsIdx,
                   parVars, cliVars>>

(***************************************************************************)
(* Parallel checkPlates (pMapIterable variant).  A slot of promises is one *)
(* mapper call: the input index (0-based), whether the mapper has returned *)
(* and the value it returned.                                              *)
(***************************************************************************)
\* slice(1, 1000) in place of slice(0, 1000).
slicedFromSecond == SubSeq(plates, 2, Min(Len(plates), SLICE_LIMIT))

sliced == SubSeq(plates, 1, Min(Len(plates), SLICE_LIMIT))

NoValue == [plate |-> <<>>, status |-> "<pending>", error |-> Absent]

Slot(i) == [index |-> i, resolved |-> FALSE, value |-> NoValue]

runningMappersCount(proms) ==
    Cardinality({k \in 1 .. Len(proms) : ~proms[k].resolved})

finderOf(index, finders) == finders[(index % Len(finders)) + 1]

\* A trySpawn held back by the running mappers alone, not by the length of
\* the promises queue.
RECURSIVE trySpawnUnbuffered(_, _)
trySpawnUnbuffered(proms, index) ==
    IF /\ runningMappersCount(proms) < PARALLEL_WORKERS
       /\ index < Len(sliced)
    THEN trySpawnUnbuffered(Append(proms, Slot(index)), index + 1)
    ELSE [promises |-> proms, index |-> index]

\* pMapIterable's trySpawn, repeated as its promise chain repeats it: the new
\* promises queue and index.
RECURSIVE trySpawn(_, _)
trySpawn(proms, index) ==
    IF /\ runningMappersCount(proms) < PARALLEL_WORKERS
       /\ Len(proms) < PARALLEL_WORKERS
       /\ index < Len(sliced)
    THEN trySpawn(Append(proms, Slot(index)), index + 1)
    ELSE [promises |-> proms, index |-> index]

\* The mapper calls trySpawn starts: one getPlateStatus request each.
spawnedProbes(from, to, finders) ==
    [k \in 1 .. (to - from) |->
        Probe(finderOf(from + k - 1, finders), sliced[from + k], from + k,
              cookies'[finderOf(from + k - 1, finders)])]

spawn(proms, finders, infl) ==
    LET sp == trySpawn(proms, nextIndex)
        new == spawnedProbes(nextIndex, sp.index, finders)
    IN /\ promises' = sp.promises
       /\ nextIndex' = sp.index
       /\ inflight' = infl \cup {new[k] : k \in 1 .. Len(new)}
       /\ probeLog' = probeLog \o new

\* A result event carrying totalChecked as it was before its increment.
resultEventStale(id, value, total) ==
    Event(id, value.plate, value.status, value.error, total - 1)

\* The tracked event of a mapper result.
resultEvent(id, value, total) ==
    Event(id, value.plate, value.status, value.error, total)

\* An event id that is used and not incremented.
sameEventId(id) == id

\* eventId++
nextEventId(id) == id + 1

mapperResult(plate, status) ==
    [plate |-> toUpperCase(plate),
     status |-> reportedStatus(status),
     error |-> IF status = "ERROR" THEN "Failed to check plate" ELSE Absent]

ParSubscribe ==
    /\ entry = "parallel"
    /\ parPc = "idle"
    /\ parPc' = IF inputParses(entry, plates) THEN "initializing" ELSE "rejected"
    /\ eventId' = 0
    /\ totalChecked' = 0
    /\ UNCHANGED <<entry, plates, qcVars, finderVars, probeVars, events, obsVars,
                   plateFinders, promises, nextIndex, parCancelled, lastEventId,
                   emitted, cliVars>>

ParInitReturn(r) ==
    /\ entry = "parallel"
    /\ parPc = "initializing"
    /\ LET f == Len(plateFinders) + 1
           res == initialize(sessionId[f], r)
       IN /\ setSession(f, r)
          /\ IF res.threw
             THEN /\ events' = events \o systemError(eventId, res.message)
                  /\ eventId' = nextEventId(eventId)
                  /\ parPc' = "closed"
                  /\ UNCHANGED <<plateFinders, promises, nextIndex, inflight,
                                 probeLog>>
             ELSE /\ plateFinders' = Append(plateFinders, f)
                  /\ UNCHANGED <<events, eventId>>
                  /\ IF f < PARALLEL_WORKERS
                     THEN /\ parPc' = "initializing"
                          /\ UNCHANGED <<promises, nextIndex, inflight, probeLog>>
                     ELSE /\ spawn(promises, plateFinders', inflight)
                          /\ parPc' = IF promises' = <<>> THEN "closed" ELSE "running"
    /\ UNCHANGED <<entry, plates, qcVars,
                   availablePlates, platesChecked, lastProbe, obsVars,
                   totalChecked, parCancelled, lastEventId, emitted, cliVars>>

ParProbeReturn(k, r) ==
    /\ entry = "parallel"
    /\ k \in 1 .. Len(promises)
    /\ ~promises[k].resolved
    /\ UNCHANGED <<platesChecked, initOutcome, handshake>>
    /\ LET plate == sliced[promises[k].index + 1]
           f == finderOf(promises[k].index, plateFinders)
           done == [promises EXCEPT
                      ![k] = [@ EXCEPT !.resolved = TRUE,
                                       !.value = mapperResult(plate, getPlateStatus(r))]]
       IN /\ recordStatus(f, plate, promises[k].index + 1, r)
          /\ spawn(done, plateFinders,
                   inflight \ {Probe(f, plate, promises[k].index + 1, cookies[f])})
    /\ UNCHANGED <<entry, plates, qcVars, events, obsVars, parPc, plateFinders, eventId,
                   totalChecked, parCancelled, lastEventId, emitted, cliVars>>

\* An iterable that yields whichever result is ready: the newest resolved
\* promise of the queue.
emitSlotReady(proms) ==
    IF \E k \in 1 .. Len(proms) : proms[k].resolved
    THEN CHOOSE k \in 1 .. Len(proms) :
            /\ proms[k].resolved
            /\ \A j \in (k + 1) .. Len(proms) : ~proms[j].resolved
    ELSE 1

\* The promise pMapIterable awaits and shifts off its queue: promises[0].
emitSlot(proms) == 1

withoutSlot(proms, k) == SubSeq(proms, 1, k - 1) \o SubSeq(proms, k + 1, Len(proms))

\* The for await of the subscription receives the next result and yields it.
ParEmit ==
    /\ entry = "parallel"
    /\ parPc = "running"
    /\ promises # <<>>
    /\ promises[emitSlot(promises)].resolved
    /\ UNCHANGED <<sessionId, cookies, platesChecked, initOutcome, handshake>>
    /\ spawn(withoutSlot(promises, emitSlot(promises)), plateFinders, inflight)
    /\ totalChecked' = totalChecked + 1
    /\ events' = Append(events, resultEvent(eventId,
                                            promises[emitSlot(promises)].value,
                                            totalChecked'))
    /\ emitted' = Append(emitted, promises[emitSlot(promises)].index)
    /\ eventId' = nextEventId(eventId)
    /\ parPc' = IF parCancelled \/ promises' = <<>> THEN "closed" ELSE "running"
    /\ UNCHANGED <<entry, plates, qcVars, availablePlates, lastProbe, obsVars,
                   plateFinders, parCancelled, lastEventId, cliVars>>

\* The consumer goes away, once: return() is requested of the generator,
\* which is running and so ends at its next yield; the mappers in flight go on.
ParCancel ==
    /\ entry = "parallel"
    /\ parPc \in {"initializing", "running"}
    /\ ~parCancelled
    /\ lastEventId = NoId
    /\ parCancelled' = TRUE
    /\ UNCHANGED <<entry, plates, qcVars, finderVars, probeVars, events, obsVars, parPc,
                   plateFinders, promises, nextIndex, eventId, totalChecked,
                   lastEventId, emitted, cliVars>>

\* The consumer that went away comes back, once: its client subscribes again
\* with the same input and the id of the last event it received, a plate
\* result.  The resolver runs anew with new PlateFinders; events, probeLog
\* and lastProbe are from here on those of the new stream.
ParReconnect ==
    /\ entry = "parallel"
    /\ parPc = "closed"
    /\ parCancelled
    /\ lastEventId = NoId
    /\ inflight = {}
    /\ events # <<>>
    /\ events[Len(events)].plate # SYSTEM
    /\ lastEventId' = events[Len(events)].id
    /\ emitted' = <<>>
    /\ parPc' = "initializing"
    /\ eventId' = 0
    /\ totalChecked' = 0
    /\ plateFinders' = <<>>
    /\ promises' = <<>>
    /\ nextIndex' = 0
    /\ parCancelled' = FALSE
    /\ events' = <<>>
    /\ sessionId' = [f \in Finders |-> ""]
    /\ cookies' = [f \in Finders |-> <<>>]
    /\ availablePlates' = [f \in Finders |-> <<>>]
    /\ platesChecked' = [f \in Finders |-> 0]
    /\ initOutcome' = [f \in Finders |-> "none"]
    /\ handshake' = [f \in Finders |-> NoHandshake]
    /\ inflight' = {}
    /\ probeLog' = <<>>
    /\ lastProbe' = NoProbe
    /\ UNCHANGED <<entry, plates, qcVars, obsVars, cliVars>>

(***************************************************************************)
(* The quickCheck mutation: one plate, one PlateFinder.                    *)
(***************************************************************************)
quickCheckResult(plate, status) ==
    [plate |-> toUpperCase(plate),
     status |-> reportedStatus(status),
     error |-> IF status = "ERROR" THEN "Failed to check plate" ELSE Absent]

\* The request arrives: an input that does not parse is rejected; otherwise
\* the resolver runs up to the handshake request of initialize().
QuickCheckCall ==
    /\ entry = "quickCheck"
    /\ qcPc = "idle"
    /\ qcPc' = IF inputParses(entry, plates) THEN "initializing" ELSE "rejected"
    /\ UNCHANGED <<entry, plates, qcResult, finderVars, probeVars, events, obsVars,
                   parVars, cliVars>>

QuickCheckInitReturn(r) ==
    /\ entry = "quickCheck"
    /\ qcPc = "initializing"
    /\ setSession(1, r)
    /\ IF initialize(sessionId[1], r).threw
       THEN /\ qcResult' = [plate |-> toUpperCase(plates[1]), status |-> "ERROR",
                            error |-> initialize(sessionId[1], r).message]
            /\ qcPc' = "returned"
            /\ UNCHANGED <<inflight, probeLog>>
       ELSE /\ qcPc' = "probing"
            /\ inflight' = inflight \cup {Probe(1, plates[1], 1, cookies'[1])}
            /\ probeLog' = Append(probeLog, Probe(1, plates[1], 1, cookies'[1]))
            /\ UNCHANGED qcResult
    /\ UNCHANGED <<entry, plates, availablePlates, platesChecked, lastProbe, events,
                   obsVars, parVars, cliVars>>

QuickCheckProbeReturn(r) ==
    /\ entry = "quickCheck"
    /\ qcPc = "probing"
    /\ recordStatus(1, plates[1], 1, r)
    /\ inflight' = inflight \ {Probe(1, plates[1], 1, cookies[1])}
    /\ qcResult' = quickCheckResult(plates[1], getPlateStatus(r))
    /\ qcPc' = "returned"
    /\ UNCHANGED <<entry, plates, platesChecked, initOutcome, handshake, probeLog, events,
                   obsVars, parVars, cliVars>>

(***************************************************************************)
(* The CLI pool: main, the shared generator getNextPlate() and             *)
(* PlateFinder.run.  plates.txt exists and plates holds its lines.         *)
(***************************************************************************)
TEST == <<"T", "E", "S", "T">>

Workers == 1 .. NUM_PARALLEL

\* getNextPlate's filter on a line of plates.txt.
acceptsLine(line) ==
    LET trimmedLine == trim(line)
    IN /\ trimmedLine # <<>>
       /\ Len(trimmedLine) >= MINIMUM_LENGTH
       /\ Len(trimmedLine) <= MAXIMUM_LENGTH

\* The generator resumed after having read n lines: the number of lines read
\* when it yields again, Len(plates) + 1 when it returns instead.
RECURSIVE nextAccepted(_)
nextAccepted(n) ==
    IF n >= Len(plates) THEN Len(plates) + 1
    ELSE IF acceptsLine(plates[n + 1]) THEN n + 1
    ELSE nextAccepted(n + 1)

\* Everything getNextPlate() yields, in order.
RECURSIVE yieldedFrom(_)
yieldedFrom(n) ==
    IF nextAccepted(n) > Len(plates) THEN <<>>
    ELSE <<trim(plates[nextAccepted(n)])>> \o yieldedFrom(nextAccepted(n))

allYields == <<TEST>> \o yieldedFrom(0)

charCode(c) ==
    CASE c = " " -> 32
      [] c = "A" -> 65
      [] c = "B" -> 66
      [] c = "E" -> 69
      [] c = "S" -> 83
      [] c = "T" -> 84
      [] c = "a" -> 97
      [] c = "b" -> 98
      [] OTHER -> 0

\* Array.prototype.sort's default order: by UTF-16 code units.
RECURSIVE sortsBefore(_, _)
sortsBefore(s, t) ==
    IF s = <<>> THEN t # <<>>
    ELSE IF t = <<>> THEN FALSE
    ELSE IF charCode(Head(s)) # charCode(Head(t))
         THEN charCode(Head(s)) < charCode(Head(t))
    ELSE sortsBefore(Tail(s), Tail(t))

RECURSIVE insertSorted(_, _)
insertSorted(sorted, x) ==
    IF sorted = <<>> THEN <<x>>
    ELSE IF sortsBefore(x, Head(sorted)) THEN <<x>> \o sorted
    ELSE <<Head(sorted)>> \o insertSorted(Tail(sorted), x)

RECURSIVE sort(_)
sort(list) ==
    IF list = <<>> THEN <<>>
    ELSE insertSorted(sort(SubSeq(list, 1, Len(list) - 1)), list[Len(list)])

RECURSIVE flatMapAvailable(_)
flatMapAvailable(n) ==
    IF n = 0 THEN <<>> ELSE flatMapAvailable(n - 1) \o availablePlates[n]

\* The pools of PlateFinders over one shared generator: main, whose workers
\* run(), and a caller built as main is whose workers are consumed through
\* checkPlatesWithResults().
Pools == {"cli", "results"}

cliRunning == entry \in Pools /\ mainState \in {"initializing", "awaiting"}

MainStart ==
    /\ entry \in Pools
    /\ mainState = "idle"
    /\ mainState' = "initializing"
    /\ workerPc' = [w \in Workers |-> "initializing"]
    /\ UNCHANGED <<entry, plates, qcVars,
                   finderVars, probeVars, events, obsVars, parVars,
                   genPos, genLine, genDone, genReturn, genQueue, outputFile>>

\* worker.initialize() returns in main's map callback; on success run() starts
\* and asks the shared generator for its first plate.
CliInitReturn(w, r) ==
    /\ cliRunning
    /\ workerPc[w] = "initializing"
    /\ setSession(w, r)
    /\ IF initialize(sessionId[w], r).threw
       THEN /\ mainState' = "crashed"
            /\ workerPc' = [workerPc EXCEPT ![w] = "failed"]
            /\ UNCHANGED genQueue
       ELSE /\ workerPc' = [workerPc EXCEPT ![w] = "waiting"]
            /\ genQueue' = Append(genQueue, w)
            /\ mainState' = IF \A v \in Workers : workerPc'[v] # "initializing"
                            THEN "awaiting" ELSE mainState
    /\ UNCHANGED <<entry, plates, qcVars,
                   availablePlates, platesChecked, probeVars, events,
                   obsVars, parVars, genPos, genLine, genDone, genReturn,
                   outputFile>>

\* A generator whose value is seen by every pending next().
genReceiversAll(queue) == {queue[k] : k \in 1 .. Len(queue)}

\* The pending next() calls one resumption of the shared generator answers:
\* the oldest one.
genReceivers(queue) == {Head(queue)}

\* The shared generator answers a pending next(): with its next value, which
\* the receiving run() probes at once, or with done, on which run() returns.
returnDue == genReturn # NoReturn /\ ~genReturn.closed /\ genReturn.after = 0

GenStep ==
    /\ cliRunning
    /\ genQueue # <<>>
    /\ ~returnDue
    /\ genReturn' = IF genReturn # NoReturn /\ ~genReturn.closed
                    THEN [genReturn EXCEPT !.after = @ - 1]
                    ELSE genReturn
    /\ LET ws == genReceivers(genQueue)
           line == IF genPos = 0 THEN 0 ELSE nextAccepted(genLine)
           exhausted == genDone \/ line > Len(plates)
           plate == IF genPos = 0 THEN TEST ELSE trim(plates[line])
           probesOf == {Probe(w, plate, genPos + 1, cookies[w]) : w \in ws}
           sent == SelectSeq([k \in 1 .. Len(genQueue) |->
                                Probe(genQueue[k], plate, genPos + 1,
                                      cookies[genQueue[k]])],
                             LAMBDA p : p.finder \in ws)
       IN /\ genQueue' = SelectSeq(genQueue, LAMBDA w : w \notin ws)
          /\ IF exhausted
             THEN /\ genDone' = TRUE
                  /\ workerPc' = [w \in Workers |->
                                    IF w \in ws THEN "done" ELSE workerPc[w]]
                  /\ UNCHANGED <<genPos, genLine, inflight, probeLog>>
             ELSE /\ genPos' = genPos + 1
                  /\ genLine' = line
                  /\ workerPc' = [w \in Workers |->
                                    IF w \in ws THEN "probing" ELSE workerPc[w]]
                  /\ inflight' = inflight \cup probesOf
                  /\ probeLog' = probeLog \o sent
                  /\ UNCHANGED genDone
    /\ UNCHANGED <<entry, plates, qcVars,
                   finderVars, lastProbe, events, obsVars, parVars,
                   mainState, outputFile>>

\* A run() loop that a failed probe ends.
runLoopStopsOnError(status) == IF status = "ERROR" THEN "done" ELSE "waiting"

\* Where run() is after getPlateStatus has returned status: at the head of its
\* for await, asking the generator for the next plate.
runLoop(status) == "waiting"

\* A platesChecked that counts only the probes that did not fail.
platesCheckedOnSuccess(n, status) == IF status = "ERROR" THEN n ELSE n + 1

\* this.platesChecked++ at the end of the loop body, whatever the status.
platesCheckedAfter(n, status) == n + 1

\* run(): getPlateStatus returns, platesChecked++, the next plate is asked.
CliProbeReturn(w, r) ==
    /\ entry = "cli"
    /\ cliRunning
    /\ workerPc[w] = "probing"
    /\ \E p \in inflight :
          /\ p.finder = w
          /\ recordStatus(w, p.plate, p.src, r)
          /\ inflight' = inflight \ {p}
    /\ platesChecked' = [platesChecked EXCEPT
                            ![w] = platesCheckedAfter(@, getPlateStatus(r))]
    /\ workerPc' = [workerPc EXCEPT ![w] = runLoop(getPlateStatus(r))]
    /\ genQueue' = IF workerPc'[w] = "waiting" THEN Append(genQueue, w) ELSE genQueue
    /\ UNCHANGED <<entry, plates, qcVars, initOutcome, handshake, probeLog, events, obsVars,
                   parVars, mainState, genPos, genLine, genDone, genReturn,
                   outputFile>>

(***************************************************************************)
(* The pool consumed through checkPlatesWithResults(): each worker's       *)
(* stream is read by a for await of its own, which may break.              *)
(***************************************************************************)
\* The answers of the endpoint to the probes of this pool.
StreamResponses == { Resp(0, "invalid", Absent), Resp(200, "object", "AVAILABLE") }

\* The value of the yield: { plate: plate.toUpperCase(), status }.
yieldedResult(plate, status) == [plate |-> toUpperCase(plate), status |-> status]

\* checkPlatesWithResults(): getPlateStatus returns, platesChecked++, the
\* result is yielded and the stream waits for its consumer.
ResProbeReturn(w, r) ==
    /\ entry = "results"
    /\ cliRunning
    /\ workerPc[w] = "probing"
    /\ \E p \in inflight :
          /\ p.finder = w
          /\ recordStatus(w, p.plate, p.src, r)
          /\ inflight' = inflight \ {p}
    /\ platesChecked' = [platesChecked EXCEPT
                            ![w] = platesCheckedAfter(@, getPlateStatus(r))]
    /\ workerPc' = [workerPc EXCEPT ![w] = "yielded"]
    /\ UNCHANGED <<entry, plates, qcVars, initOutcome, handshake, probeLog, events,
                   obsVars, parVars, mainState, genPos, genLine, genDone, genReturn,
                   genQueue, outputFile>>

\* The consumer asks for the next result: the stream goes round its for await
\* and asks the shared generator for the next plate.
ResConsumerNext(w) ==
    /\ entry = "results"
    /\ cliRunning
    /\ workerPc[w] = "yielded"
    /\ workerPc' = [workerPc EXCEPT ![w] = "waiting"]
    /\ genQueue' = Append(genQueue, w)
    /\ UNCHANGED <<entry, plates, qcVars, finderVars, probeVars, events, obsVars,
                   parVars, mainState, genPos, genLine, genDone, genReturn,
                   outputFile>>

\* The consumer of one stream breaks out of its loop: return() resumes the
\* stream at its yield, and its for await, left by the return, calls
\* return() on the shared generator, behind the next() calls still pending.
ResConsumerReturn(w) ==
    /\ entry = "results"
    /\ cliRunning
    /\ workerPc[w] = "yielded"
    /\ genReturn = NoReturn
    /\ workerPc' = [workerPc EXCEPT ![w] = "closing"]
    /\ genReturn' = [by |-> w, after |-> Len(genQueue), closed |-> FALSE]
    /\ UNCHANGED <<entry, plates, qcVars, finderVars, probeVars, events, obsVars,
                   parVars, mainState, genPos, genLine, genDone, genQueue,
                   outputFile>>

\* A return() that leaves the generator as it was.
generatorReturnIgnored(done) == done

\* The state of an async generator after return() resumed it at a yield or
\* found it completed: completed.
generatorReturn(done) == TRUE

\* The shared generator carries out the return(): it completes, and the
\* stream that asked completes in turn.
GenReturn ==
    /\ entry = "results"
    /\ cliRunning
    /\ returnDue
    /\ genDone' = generatorReturn(genDone)
    /\ genReturn' = [genReturn EXCEPT !.closed = TRUE]
    /\ workerPc' = [workerPc EXCEPT ![genReturn.by] = "returned"]
    /\ UNCHANGED <<entry, plates, qcVars, finderVars, probeVars, events, obsVars,
                   parVars, mainState, genPos, genLine, genQueue, outputFile>>

\* An Agent built with headersTimeout: 0 and bodyTimeout: 0: no timer.
timeoutDisabled(p) == FALSE

\* The Agent of the constructor sets keep-alive, connections and pipelining
\* and leaves undici's headersTimeout and bodyTimeout at their defaults, so
\* the request of the probe p has a timer running.
timeoutArmed(p) == TRUE

\* What request() does when the timer of an unanswered request expires: it
\* rejects, as it does on a connection failure.
HeadersTimeoutError == Resp(0, "invalid", Absent)

\* The endpoint has not answered the probe of w: the request's timer expires
\* and getPlateStatus returns from its catch.
CliProbeTimeout(w) ==
    /\ \E p \in inflight : p.finder = w /\ timeoutArmed(p)
    /\ CliProbeReturn(w, HeadersTimeoutError)

\* Every run() has returned: the available plates are written out.
MainFinish ==
    /\ entry = "cli"
    /\ mainState = "awaiting"
    /\ \A w \in Workers : workerPc[w] = "done"
    /\ outputFile' = sort(flatMapAvailable(NUM_PARALLEL))
    /\ mainState' = "finished"
    /\ UNCHANGED <<entry, plates, qcVars,
                   finderVars, probeVars, events, obsVars, parVars,
                   workerPc, genPos, genLine, genDone, genReturn, genQueue>>

Next ==
    \/ ObsSubscribe
    \/ \E r \in InitResponses(1) : ObsInitReturn(r)
    \/ \E r \in ProbeResponses : ObsProbeReturn(r)
    \/ ObsUnsubscribe
    \/ ParSubscribe
    \/ \E r \in InitResponses(Len(plateFinders) + 1) : ParInitReturn(r)
    \/ \E k \in 1 .. PARALLEL_WORKERS, r \in ProbeResponses : ParProbeReturn(k, r)
    \/ ParEmit
    \/ ParCancel
    \/ ParReconnect
    \/ QuickCheckCall
    \/ \E r \in InitResponses(1) : QuickCheckInitReturn(r)
    \/ \E r \in ProbeResponses : QuickCheckProbeReturn(r)
    \/ MainStart
    \/ \E w \in Workers : \E r \in InitResponses(w) : CliInitReturn(w, r)
    \/ GenStep
    \/ \E w \in Workers, r \in ProbeResponses : CliProbeReturn(w, r)
    \/ \E w \in Workers : CliProbeTimeout(w)
    \/ MainFinish
    \/ \E w \in Workers, r \in StreamResponses : ResProbeReturn(w, r)
    \/ \E w \in Workers : ResConsumerNext(w)
    \/ \E w \in Workers : ResConsumerReturn(w)
    \/ GenReturn

Spec == Init /\ [][Next]_vars

(***************************************************************************)
(* The parallel checkPlates subscription alone, with the event loop        *)
(* running every continuation that is ready and every request answered.    *)
(* The consumer's cancellation is left to the consumer.                    *)
(***************************************************************************)
InitParallel == Init /\ entry = "parallel"

ParProgram ==
    \/ ParSubscribe
    \/ \E r \in InitResponses(Len(plateFinders) + 1) : ParInitReturn(r)
    \/ \E k \in 1 .. PARALLEL_WORKERS, r \in ProbeResponses : ParProbeReturn(k, r)
    \/ ParEmit

NextParallel == ParProgram \/ ParCancel

LiveSpecParallel == InitParallel /\ [][NextParallel]_vars /\ WF_vars(ParProgram)

(***************************************************************************)
(* The CLI pool alone, with the event loop running every continuation that *)
(* is ready and every request answered.                                    *)
(***************************************************************************)
InitCli == Init /\ entry = "cli"

NextCli ==
    \/ MainStart
    \/ \E w \in Workers : \E r \in InitResponses(w) : CliInitReturn(w, r)
    \/ GenStep
    \/ \E w \in Workers, r \in ProbeResponses : CliProbeReturn(w, r)
    \/ MainFinish

LiveSpecCli == InitCli /\ [][NextCli]_vars /\ WF_vars(NextCli)

(***************************************************************************)
(* The CLI pool with an endpoint that may leave any request unanswered:    *)
(* only the event loop's own continuations and the timers of the requests  *)
(* are sure to run.                                                        *)
(***************************************************************************)
NextCliTimeout ==
    \/ NextCli
    \/ \E w \in Workers : CliProbeTimeout(w)

LiveSpecTimeout ==
    /\ InitCli
    /\ [][NextCliTimeout]_vars
    /\ WF_vars(MainStart \/ GenStep \/ MainFinish \/ \E w \in Workers : CliProbeTimeout(w))

(***************************************************************************)
(* Properties.                                                             *)
(***************************************************************************)
plateEvents == SelectSeq(events, LAMBDA e : e.plate # SYSTEM)

verdictEvents ==
    SelectSeq(events, LAMBDA e : e.plate # SYSTEM /\ e.status # "CHECKING")

systemErrors ==
    {i \in 1 .. Len(events) : events[i].plate = SYSTEM /\ events[i].status = "ERROR"}

someAcquired == \E f \in Finders : initOutcome[f] = "returned"
someFailed == \E f \in Finders : initOutcome[f] = "threw"
allSessionsAcquired == Len(plateFinders) = PARALLEL_WORKERS

\* C1: in the CLI pool every value the shared generator has yielded is
\* received by exactly one worker and probed exactly once: the i-th probe
\* request is for the i-th yielded value, there are as many probe requests as
\* yielded values, and when main has finished the generator has yielded
\* everything it had.
C1_ExactlyOnce ==
    entry = "cli" =>
        /\ Len(probeLog) = genPos
        /\ \A i \in 1 .. Len(probeLog) :
              /\ probeLog[i].src = i
              /\ probeLog[i].plate = allYields[i]
              /\ probeLog[i].finder \in Workers
        /\ mainState = "finished" => genPos = Len(allYields)

C1_Witness ==
    /\ entry = "cli"
    /\ mainState = "finished"
    /\ genPos >= 3
    /\ \E i, j \in 1 .. Len(probeLog) : probeLog[i].finder # probeLog[j].finder

\* C2 as amended: in the parallel subscription, once all sessions are
\* acquired, unless the consumer cancels, the stream eventually closes having
\* emitted exactly min(M, SLICE_LIMIT) plate results, the k-th for the k-th
\* input plate.
C2_EmitsSlicedPlates ==
    (entry = "parallel" /\ allSessionsAcquired)
        ~> \/ parCancelled
           \/ /\ parPc = "closed"
              /\ Len(plateEvents) = Min(Len(plates), SLICE_LIMIT)
              /\ \A k \in 1 .. Len(plateEvents) :
                    plateEvents[k].plate = toUpperCase(plates[k])

C2_Witness ==
    /\ entry = "parallel"
    /\ allSessionsAcquired
    /\ ~parCancelled
    /\ parPc = "closed"
    /\ Len(plates) > SLICE_LIMIT
    /\ \E k \in 1 .. Len(plateEvents) : plateEvents[k].status = "ERROR"

\* C2 as claimed: with all sessions acquired and no cancellation, the closed
\* stream has emitted exactly M plate results for an input of M plates.
C2_Original ==
    (entry = "parallel" /\ allSessionsAcquired /\ ~parCancelled /\ parPc = "closed")
        => Len(plateEvents) = Len(plates)

\* C3: in the parallel subscription the k-th emitted plate result carries
\* totalChecked = k.
C3_TotalCheckedCounts ==
    entry = "parallel" =>
        \A k \in 1 .. Len(plateEvents) : plateEvents[k].totalChecked = k

C3_Witness ==
    /\ entry = "parallel"
    /\ Len(plateEvents) >= 2

\* C4 as claimed: in the single-session subscription the k-th final
\* (non-CHECKING) plate result carries totalChecked = k.
C4_Original ==
    entry = "observable" =>
        \A k \in 1 .. Len(verdictEvents) : verdictEvents[k].totalChecked = k

\* C5: in the parallel subscription the i-th emitted event, counting from 0,
\* has id i, the SYSTEM error event of the catch block included.
C5_EventIdsGapFree ==
    entry = "parallel" =>
        \A i \in 1 .. Len(events) : events[i].id = i - 1

C5_Witness ==
    /\ entry = "parallel"
    /\ Len(events) >= 2
    /\ parPc = "closed"

\* C6 as claimed: when some but not all session acquisitions fail the pool is
\* not aborted: main does not die, and the parallel subscription does not
\* end in its SYSTEM error event.
C6_Original ==
    (someAcquired /\ someFailed) =>
        /\ entry = "cli" => mainState # "crashed"
        /\ entry = "parallel" => systemErrors = {}

\* C7: when every session acquisition fails, a checkPlates stream has emitted
\* exactly one SYSTEM error event, which is its last event, no plate event of
\* any status, and has sent no probe request; nothing more is emitted.
C7_AllSessionsFail ==
    (entry \in {"observable", "parallel"} /\ someFailed /\ ~someAcquired) =>
        /\ Cardinality(systemErrors) = 1
        /\ Len(events) \in systemErrors
        /\ plateEvents = <<>>
        /\ probeLog = <<>>
        /\ entry = "observable" => obsPc = "returned"
        /\ entry = "parallel" => parPc = "closed"

C7_Witness ==
    /\ entry = "observable"
    /\ someFailed
    /\ ~someAcquired
    /\ plates # <<>>

\* C8 as claimed: once runPlateChecker is over (after the last plate's
\* result, after a failed initialisation, after cancellation) the stream of
\* the single-session subscription is completed and not left open.
C8_Original ==
    (entry = "observable" /\ obsPc = "returned") => streamState = "completed"

isFailure(r) ==
    \/ r.statusCode # 200
    \/ r.json \in {"invalid", "null"}

emittedForLastProbe ==
    IF entry = "observable" THEN verdictEvents[Len(verdictEvents)].status
    ELSE plateEvents[lastProbe.src].status

lastProbeEmitted ==
    /\ lastProbe # NoProbe
    /\ \/ entry = "observable"
       \/ entry = "parallel" /\ lastProbe.src <= Len(plateEvents)

\* C10 as claimed: for an HTTP 200 answer whose body is an object with a code
\* field, the stream reports AVAILABLE exactly when the code is "AVAILABLE"
\* and UNAVAILABLE for every other code; no code yields ERROR.
C10_Original ==
    (/\ lastProbeEmitted
     /\ lastProbe.resp.statusCode = 200
     /\ lastProbe.resp.json = "object"
     /\ lastProbe.resp.code # Absent)
        => emittedForLastProbe = IF lastProbe.resp.code = "AVAILABLE"
                                 THEN "AVAILABLE" ELSE "UNAVAILABLE"

\* C11 as claimed: a probe whose answer has a status other than 200, a body
\* that does not parse, or no code field is reported by the stream as ERROR.
C11_Original ==
    (/\ lastProbeEmitted
     /\ \/ lastProbe.resp.statusCode # 200
        \/ lastProbe.resp.json = "invalid"
        \/ lastProbe.resp.code = Absent)
        => emittedForLastProbe = "ERROR"

\* C12: a newly constructed PlateFinder has no availablePlates; a
\* getPlateStatus call that returns AVAILABLE appends the uppercased candidate
\* once to the availablePlates of its PlateFinder, and nothing else changes
\* them: a call returning another status, and every step that is not the
\* return of a call, leaves them as they are.
C12_AvailableAppended ==
    [][\A f \in Finders :
          availablePlates'[f] =
             IF lastEventId' # lastEventId
             THEN <<>>
             ELSE IF /\ lastProbe' # lastProbe
                     /\ lastProbe'.finder = f
                     /\ lastProbe'.status = "AVAILABLE"
             THEN Append(availablePlates[f], toUpperCase(lastProbe'.plate))
             ELSE availablePlates[f]]_vars

C12_Witness ==
    /\ lastProbe # NoProbe
    /\ lastProbe.status = "ERROR"
    /\ lastProbe.plate = <<"a", "b">>
    /\ availablePlates[lastProbe.finder] = << <<"A", "B">>, <<"A", "B">> >>

isSorted(list) ==
    \A i \in 1 .. Len(list) - 1 : ~sortsBefore(list[i + 1], list[i])

noDuplicates(list) ==
    \A i, j \in 1 .. Len(list) : i # j => list[i] # list[j]

classifiedAvailable ==
    UNION { {availablePlates[w][k] : k \in 1 .. Len(availablePlates[w])} :
            w \in Workers }

\* C13 as claimed: the list the CLI writes when all workers have finished is
\* sorted, has no duplicate entry, and holds every candidate classified
\* AVAILABLE during the run.
C13_Original ==
    (entry = "cli" /\ mainState = "finished") =>
        /\ isSorted(outputFile)
        /\ noDuplicates(outputFile)
        /\ {outputFile[k] : k \in 1 .. Len(outputFile)} = classifiedAvailable

\* C14 as claimed: when plates.txt has no valid line the CLI pool sends no
\* probe request at all, and the list it writes is empty.
C14_Original ==
    (entry = "cli" /\ yieldedFrom(0) = <<>>) =>
        /\ probeLog = <<>>
        /\ mainState = "finished" => outputFile = <<>>

\* C15: in the single-session subscription, once the consumer has
\* unsubscribed no probe request is sent any more, and the only plate event
\* still emitted is the verdict of the probe that was in flight: no CHECKING
\* event and no verdict for a plate whose probe had not started.
C15_NoProbeAfterUnsubscribe ==
    [][(entry = "observable" /\ ~isSubscribed) =>
          /\ probeLog' = probeLog
          /\ Len(events') <= Len(events) + 1
          /\ \A i \in (Len(events) + 1) .. Len(events') :
                \/ events'[i].plate = SYSTEM
                \/ /\ events'[i].status # "CHECKING"
                   /\ \E p \in inflight : events'[i].plate = toUpperCase(p.plate)]_vars

C15_Witness ==
    /\ entry = "observable"
    /\ ~isSubscribed
    /\ obsPc = "returned"
    /\ initOutcome[1] = "returned"
    /\ Len(probeLog) < Len(plates)
    /\ Len(plateEvents) = 2 * Len(probeLog)

\* C16: in the single-session subscription the unsubscription leaves the
\* probe in flight alone; after it, the probe stays in flight until it is
\* answered, its answer emits the verdict event of its plate, and no other
\* verdict event is emitted.
C16_InFlightCompletes ==
    [][entry = "observable" =>
          /\ (isSubscribed /\ ~isSubscribed') =>
                (inflight' = inflight /\ obsPc' = obsPc /\ events' = events)
          /\ ~isSubscribed =>
                IF inflight # {} /\ lastProbe' # lastProbe
                THEN /\ inflight' = {}
                     /\ verdictEvents' =
                           Append(verdictEvents,
                                  Event(NoId, toUpperCase(lastProbe'.plate),
                                        reportedStatus(lastProbe'.status),
                                        IF lastProbe'.status = "ERROR"
                                        THEN "Failed to check plate" ELSE Absent,
                                        platesChecked[1]))
                ELSE /\ inflight' = inflight
                     /\ verdictEvents' = verdictEvents]_vars

C16_Witness ==
    /\ entry = "observable"
    /\ ~isSubscribed
    /\ obsPc = "returned"
    /\ obsIdx > 1
    /\ obsIdx <= Len(plates)
    /\ Len(verdictEvents) = obsIdx - 1

\* C17: every probe request is sent by a PlateFinder whose initialize() has
\* returned normally, whose sessionId is not empty, and carries that session's
\* cookie; a PlateFinder whose initialize() threw has no request in flight,
\* and in the CLI pool its run() is not started.
C17_FailedSessionUnused ==
    /\ \A i \in 1 .. Len(probeLog) :
          /\ initOutcome[probeLog[i].finder] = "returned"
          /\ sessionId[probeLog[i].finder] # ""
          /\ probeLog[i].cookie = cookieOf(sessionId[probeLog[i].finder])
    /\ \A f \in Finders :
          initOutcome[f] = "threw" =>
             /\ \A p \in inflight : p.finder # f
             /\ entry = "cli" => workerPc[f] = "failed"

C17_Witness ==
    /\ entry = "cli"
    /\ probeLog # <<>>
    /\ \E f \in Finders : initOutcome[f] = "threw" /\ sessionId[f] # ""

\* C18 as claimed: a consumer of the parallel subscription that reconnects
\* after the event with id lastEventId, a plate result, is given only events
\* with a greater id, and none of the plates it already has a result for (the
\* first lastEventId + 1 of the input) is probed again.
C18_Original ==
    (entry = "parallel" /\ lastEventId # NoId) =>
        /\ \A i \in 1 .. Len(events) : events[i].id > lastEventId
        /\ \A i \in 1 .. Len(probeLog) : probeLog[i].src > lastEventId + 1

isAlphanumeric(s) ==
    \A i \in 1 .. Len(s) : s[i] \in {"a", "b", "A", "B", "E", "S", "T"}

\* The trimmed lines of plates.txt of 1 to 7 alphanumeric characters.
plateLines ==
    SelectSeq([i \in 1 .. Len(plates) |-> trim(plates[i])],
              LAMBDA t : Len(t) >= 1 /\ Len(t) <= 7 /\ isAlphanumeric(t))

\* What the workers were given after the initial "TEST".
probedFromFile == [i \in 1 .. Len(probeLog) - 1 |-> probeLog[i + 1].plate]

\* C19 as claimed: when the CLI has finished, what the file-based source has
\* yielded is exactly the trimmed lines of plates.txt that are 1 to 7
\* characters long and alphanumeric, in file order.
C19_Original ==
    (entry = "cli" /\ mainState = "finished") => probedFromFile = plateLines

\* C20 as claimed: every plate a checkPlates subscription sends a probe
\* request for is 1 to 7 characters long.
C20_Original ==
    entry \in {"observable", "parallel"} =>
        \A i \in 1 .. Len(probeLog) :
            Len(probeLog[i].plate) >= 1 /\ Len(probeLog[i].plate) <= 7

C22_RunLoopGoesOn ==
    /\ [][\A w \in Workers :
            /\ (workerPc[w] = "probing" /\ workerPc'[w] # "probing") =>
                  /\ workerPc'[w] = "waiting"
                  /\ \E k \in 1 .. Len(genQueue') : genQueue'[k] = w
            /\ (workerPc[w] # "done" /\ workerPc'[w] = "done") =>
                  /\ workerPc[w] = "waiting"
                  /\ genDone']_vars
    /\ (\E w \in Workers : workerPc[w] \in {"waiting", "probing"})
          ~> \/ \A w \in Workers : workerPc[w] = "done"
             \/ mainState = "crashed"

C22_Witness ==
    /\ entry = "cli"
    /\ lastProbe.status = "ERROR"
    /\ workerPc[lastProbe.finder] = "probing"

\* C23: once the initialize() of a PlateFinder has returned normally, no
\* step changes its sessionId or its cookies, whatever the answers to its
\* probes; the PlateFinders of a new subscription are new objects.
C23_SessionFrozen ==
    [][\A f \in Finders :
          (initOutcome[f] = "returned" /\ lastEventId' = lastEventId) =>
             /\ sessionId'[f] = sessionId[f]
             /\ cookies'[f] = cookies[f]]_vars

C23_Witness ==
    /\ lastProbe # NoProbe
    /\ lastProbe.resp.statusCode = 500
    /\ platesChecked[lastProbe.finder] >= 1
    /\ sessionId[lastProbe.finder] = tokenOf(lastProbe.finder)
    /\ cookies[lastProbe.finder] = <<"JSESSIONID=", tokenOf(lastProbe.finder)>>

\* C24 as claimed: in the CLI pool no candidate is pulled from the shared
\* generator while a session acquisition is still under way.
C24_Original ==
    (entry = "cli" /\ genPos > 0) =>
        \A w \in Workers : workerPc[w] # "initializing"

\* C25 as claimed: in the parallel subscription results are emitted in the
\* order in which the probes complete: when the result of the probe that
\* completed last has been emitted, no result of a probe that completed
\* before it is still waiting to be emitted.
C25_Original ==
    (/\ entry = "parallel"
     /\ lastProbe # NoProbe
     /\ lastProbe.src <= Len(plateEvents))
        => \A k \in 1 .. Len(promises) : ~promises[k].resolved

\* The position in probeLog of the probe request of the plate at input index i.
dispatchPos(i) == CHOOSE k \in 1 .. Len(probeLog) : probeLog[k].src = i + 1

\* C26: in the parallel subscription, of two results yielded for plates that
\* were given to the same PlateFinder, the one yielded first is of the plate
\* whose probe request that PlateFinder sent first.
C26_SameFinderInOrder ==
    entry = "parallel" =>
        \A a, b \in 1 .. Len(emitted) :
            (/\ a < b
             /\ probeLog[dispatchPos(emitted[a])].finder
                   = probeLog[dispatchPos(emitted[b])].finder)
                => dispatchPos(emitted[a]) < dispatchPos(emitted[b])

C26_Witness ==
    /\ entry = "parallel"
    /\ \E a, b \in 1 .. Len(emitted) :
          /\ a < b
          /\ probeLog[dispatchPos(emitted[a])].finder
                = probeLog[dispatchPos(emitted[b])].finder
    /\ \E a, b \in 1 .. Len(emitted) :
          probeLog[dispatchPos(emitted[a])].finder
             # probeLog[dispatchPos(emitted[b])].finder

isVerdict(e) == e.plate # SYSTEM /\ e.status # "CHECKING"

isChecking(e) == e.plate # SYSTEM /\ e.status = "CHECKING"

\* C27: in the single-session subscription every verdict event comes directly
\* after the CHECKING event of the same plate, and the CHECKING events without
\* a verdict yet are at most one: the last event of the stream.
C27_CheckingThenVerdict ==
    entry = "observable" =>
        /\ \A i \in 1 .. Len(events) :
              isVerdict(events[i]) =>
                 /\ i > 1
                 /\ isChecking(events[i - 1])
                 /\ events[i - 1].plate = events[i].plate
        /\ \A i \in 1 .. Len(events) - 1 :
              isChecking(events[i]) => isVerdict(events[i + 1])

C27_Witness ==
    /\ entry = "observable"
    /\ Len(verdictEvents) >= 2
    /\ isChecking(events[Len(events)])
    /\ \E i \in 1 .. Len(events) :
          isVerdict(events[i]) /\ events[i].status = "ERROR"

\* C28: in the single-session subscription the stream starts with the
\* initializing notice, which is all it holds while the handshake is
\* outstanding; the session-ready notice is emitted only when initialize() has
\* returned normally, as the second event, and every plate event comes after
\* it; with an empty plate list and a handshake that succeeds the stream is
\* these two notices and nothing else.
C28_NoticesFirst ==
    (entry = "observable" /\ obsPc \notin {"idle", "rejected"}) =>
        /\ events # <<>>
        /\ events[1] = initializingNotice
        /\ obsPc = "initializing" => events = <<initializingNotice>>
        /\ \A i \in 1 .. Len(events) :
              /\ events[i] = readyNotice => (i = 2 /\ initOutcome[1] = "returned")
              /\ events[i].plate # SYSTEM => (i > 2 /\ events[2] = readyNotice)
        /\ initOutcome[1] = "returned" => (Len(events) >= 2 /\ events[2] = readyNotice)
        /\ (plates = <<>> /\ initOutcome[1] = "returned") =>
              events = <<initializingNotice, readyNotice>>

C28_Witness ==
    /\ entry = "observable"
    /\ plates = <<>>
    /\ obsPc = "returned"
    /\ events = <<initializingNotice, readyNotice>>

\* C29: a finder whose handshake was answered with a status outside 200..299,
\* or with a response carrying no JSESSIONID cookie, has an initialize() that
\* threw and an empty sessionId; an initialize() that returned normally got a
\* response from which a session token was extracted, and left sessionId equal
\* to that token, non-empty, and cookies equal to "JSESSIONID=" followed by it.
C29_InitializeOutcome ==
    \A f \in Finders :
        handshake[f] # NoHandshake =>
            /\ (handshake[f].statusCode \notin 200 .. 299 \/ handshake[f].jsession = "") =>
                  /\ initOutcome[f] = "threw"
                  /\ sessionId[f] = ""
                  /\ cookies[f] = <<>>
            /\ initOutcome[f] = "returned" =>
                  /\ handshake[f].jsession # ""
                  /\ sessionId[f] = handshake[f].jsession
                  /\ sessionId[f] # ""
                  /\ cookies[f] = <<"JSESSIONID=", sessionId[f]>>

C29_Witness ==
    /\ \E f \in Finders :
          /\ handshake[f].statusCode = 500
          /\ handshake[f].jsession # ""
          /\ initOutcome[f] = "threw"
    /\ \E f \in Finders :
          /\ initOutcome[f] = "returned"
          /\ cookies[f] = <<"JSESSIONID=", tokenOf(f)>>

\* C30: the payload of every probe of a candidate of at most 7 characters has
\* exactly the seven positional fields plateChar0 .. plateChar6 besides the
\* four fixed fields; plateChar i is the candidate's i-th character (counted
\* from 0) when i is below the candidate's length and the empty string from
\* there up to 6; the four fixed fields have the same values in every probe,
\* those of the source's literal.
C30_PayloadFields ==
    \A n \in 1 .. Len(probeLog) :
        LET plate == probeLog[n].plate
            payload == payloadOf(probeLog[n])
            positional == <<"plateChar0", "plateChar1", "plateChar2", "plateChar3",
                            "plateChar4", "plateChar5", "plateChar6">>
            fixed == {"plateType", "plateName", "plateLength", "vehicleType"}
        IN /\ Len(plate) <= 7 =>
                 /\ DOMAIN payload = fixed \cup {positional[i] : i \in 1 .. 7}
                 /\ \A i \in 0 .. 6 :
                       payload[positional[i + 1]] =
                           IF i < Len(plate) THEN plate[i + 1] ELSE ""
           /\ payload.plateType = "Z"
           /\ payload.plateName = "California 1960s Legacy"
           /\ payload.plateLength = "7"
           /\ payload.vehicleType = "AUTO"

C30_Witness ==
    /\ Len(probeLog) >= 2
    /\ probeLog[1].plate = <<"T", "E", "S", "T">>
    /\ payloadOf(probeLog[1]).plateChar3 = "T"
    /\ payloadOf(probeLog[1]).plateChar4 = ""
    /\ probeLog[2].plate # probeLog[1].plate

\* C34: in the CLI pool each worker's platesChecked is the number of its
\* probes that have returned; the sum over the workers is the number of values
\* pulled from the shared generator whose probe has returned; and once every
\* run() has returned the sum is the number of values the generator yielded,
\* the initial "TEST" included.
RECURSIVE sumPlatesChecked(_)
sumPlatesChecked(n) == IF n = 0 THEN 0 ELSE sumPlatesChecked(n - 1) + platesChecked[n]

probesReturned(w) ==
    Cardinality({n \in 1 .. Len(probeLog) :
                    probeLog[n].finder = w /\ probeLog[n] \notin inflight})

C34_PlatesCheckedCounts ==
    entry = "cli" =>
        /\ \A w \in Workers : platesChecked[w] = probesReturned(w)
        /\ sumPlatesChecked(NUM_PARALLEL) = genPos - Cardinality(inflight)
        /\ sumPlatesChecked(NUM_PARALLEL) = Len(probeLog) - Cardinality(inflight)
        /\ (\A w \in Workers : workerPc[w] = "done") =>
              /\ sumPlatesChecked(NUM_PARALLEL) = Len(allYields)
              /\ sumPlatesChecked(NUM_PARALLEL) = genPos

C34_Witness ==
    /\ entry = "cli"
    /\ \A w \in Workers : workerPc[w] = "done"
    /\ sumPlatesChecked(NUM_PARALLEL) = 3
    /\ \E w \in Workers : platesChecked[w] = 2
    /\ \E n \in 1 .. Len(probeLog) : probeLog[n].plate = TEST
    /\ lastProbe.status = "ERROR"

\* C32: in the parallel checkPlates subscription no PlateFinder has two
\* probes in flight at once, and no more than PARALLEL_WORKERS probes are in
\* flight in total.
probesInFlightOn(f) == {p \in inflight : p.finder = f}

C32_OneProbePerFinder ==
    entry = "parallel" =>
        /\ \A f \in Finders : Cardinality(probesInFlightOn(f)) <= 1
        /\ Cardinality(inflight) <= PARALLEL_WORKERS

C32_Witness ==
    /\ entry = "parallel"
    /\ Cardinality(inflight) = PARALLEL_WORKERS
    /\ \E p \in inflight : p.src > PARALLEL_WORKERS
    /\ emitted # <<>>

C33_EarlyStopClosesGenerator ==
    /\ [][/\ (genReturn # NoReturn /\ genReturn'.closed /\ ~genReturn.closed) =>
                /\ genDone'
                /\ workerPc'[genReturn.by] = "returned"
          /\ (entry = "results" /\ genDone) =>
                /\ genDone'
                /\ genPos' = genPos
                /\ probeLog' = probeLog
                /\ \A w \in Workers :
                      (workerPc[w] = "waiting" /\ workerPc'[w] # "waiting") =>
                          workerPc'[w] = "done"]_vars
    /\ [](entry = "results" =>
             \A w \in Workers :
                 workerPc[w] = "closing" => genReturn.by = w /\ ~genReturn.closed)

C33_Witness ==
    /\ entry = "results"
    /\ genReturn.closed
    /\ genPos < Len(allYields)
    /\ \E w \in Workers :
          /\ w # genReturn.by
          /\ workerPc[w] = "done"
          /\ platesChecked[w] >= 1
    /\ workerPc[genReturn.by] = "returned"

============================================================================
